---- MODULE Spec2Model ----
(***************************************************************************)
(* Model of the IITM task handler: the three task endpoints of app.py and  *)
(* main.py, the generation client of llm_utils.py, the repository          *)
(* publisher of github_utils.py and the callback delivery loop             *)
(* send_evaluation_callback_with_retry.                                    *)
(*                                                                         *)
(* One request is handled per behaviour.  Every await of an external call  *)
(* is one step; the remote service's answer is chosen nondeterministically *)
(* in that step.  Python's None is the string NoneVal; a repository name   *)
(* "owner/repo" is the tuple <<owner, repo>>, "" is <<>>; a URL is the     *)
(* tuple of the pieces the f-string joins.  The strings a repository name  *)
(* is derived from (task, nonce, timestamp) are tuples of characters.      *)
(***************************************************************************)
EXTENDS Integers, Sequences, FiniteSets, TLC

VARIABLES
    EXPECTED_SECRET,   \* config.settings.EXPECTED_SECRET
    endpoint,          \* the route the request was posted to
    data,              \* the request's JSON body (a function from its keys)
    pc,                \* the handler's position
    repo_name,         \* handler local repo_name
    code_files,        \* the FileSet returned by generate_code / modify_code
    files_to_add,      \* the batch add_files_to_repo / update_repo iterates
    idx,               \* position of the batch loop (1-based)
    file_sha,          \* update_repo: the revision marker fetched for files_to_add[idx]
    commit_sha,        \* local commit_sha of add_files_to_repo / update_repo
    repo_url,          \* repo_info["html_url"] (round 1)
    pages_url,         \* the pages URL of the request
    calls,             \* every external call issued so far, in order
    cb_attempt,        \* loop variable `attempt` of the callback loop
    cb_events,         \* the POSTs and asyncio.sleep calls of the callback loop, in order
    cb_last,           \* the outcome of the latest callback POST
    cb_result,         \* send_evaluation_callback_with_retry's return value (NoneVal: not returned)
    cb_first200,       \* history: number of the first POST answered 200 (0: none)
    ret,               \* what the handler returns or raises
    resp,              \* the client-facing response once sent
    now,               \* the clock: ticks of 1/TicksPerSecond second since the process started
    derived,           \* the repository names derived in this process so far
    frames             \* the locals of the handler invocations suspended at an await

vars == <<EXPECTED_SECRET, endpoint, data, pc, repo_name, code_files, files_to_add,
          idx, file_sha, commit_sha, repo_url, pages_url, calls, cb_attempt, cb_events,
          cb_last, cb_result, cb_first200, ret, resp, now, derived, frames>>

NoneVal == "None"

(***************************************************************************)
(* Bounds of the model.                                                    *)
(***************************************************************************)
\* The largest number of entries of a FileSet the generation service returns.
MaxFiles == 2

\* The longest task identifier of a name derivation.
MaxLen == 2

\* The resolution of the clock: ticks per second.
TicksPerSecond == 2

\* The number of ticks the clock is followed for.
MaxTicks == 2

\* The number of name derivations followed in one process.
MaxRequests == 2

(***************************************************************************)
(* Python helpers.                                                         *)
(***************************************************************************)
\* dict.get(key, default)
Get(d, key, default) == IF key \in DOMAIN d THEN d[key] ELSE default

\* truth value of a str-or-None
Truthy(s) == s # NoneVal /\ s # ""

\* truth value of a repository name / URL held as a tuple of pieces
NonEmpty(t) == t # <<>>

(***************************************************************************)
(* Outcomes of an HTTP call: a response with a status, a network-level     *)
(* exception, or a timeout (asyncio.TimeoutError, an Exception too).       *)
(***************************************************************************)
Response(s) == [kind |-> "response", status |-> s]
NetworkError == [kind |-> "exception", status |-> 0]
Timeout == [kind |-> "timeout", status |-> 0]
NoOutcome == [kind |-> "none", status |-> 0]

Raises(o) == o.kind # "response"

\* What the evaluator may answer to a callback POST.
CallbackOutcomes == {Response(200), Response(201), Response(500), NetworkError, Timeout}
\* What the GitHub API may answer.
GithubOutcomes == {Response(200), Response(201), Response(422), NetworkError}
\* What the generation service may answer.
LlmOutcomes == {Response(200), Response(500), NetworkError, Timeout}

(***************************************************************************)
(* The requests.                                                           *)
(***************************************************************************)
Secrets == {"s3cr3t", "wrong"}
EvaluationUrl == "https://evaluator.example/notify"
Owner == "octo"
TaskDemo == <<"d", "e", "m", "o">>
NonceN1 == <<"n", "1">>

\* time.time() when the process starts, in seconds
StartSecond == 1700000000

Restrict(f, K) == [k \in K |-> f[k]]

\* Bodies posted to /iitm-task (main.py reads neither round nor repo_name):
\* with the task's fields, or with nothing but an email and a secret.
TaskBodies ==
    LET full == [secret |-> "s3cr3t", evaluation_url |-> EvaluationUrl, task |-> TaskDemo,
                 nonce |-> NonceN1, email |-> "a@b.c", brief |-> "hello page"]
    IN { Restrict([full EXCEPT !.secret = s], K \cup {"task", "nonce", "email", "brief"}) :
            s \in Secrets, K \in SUBSET {"secret", "evaluation_url"} }
       \cup { Restrict([full EXCEPT !.secret = s], {"email", "secret"}) : s \in Secrets }

\* Bodies posted to /iitm-round2.
Round2Bodies ==
    { Restrict([secret |-> s, evaluation_url |-> EvaluationUrl, task |-> TaskDemo,
                nonce |-> NonceN1, email |-> "a@b.c", modification |-> "add footer",
                repo_name |-> <<Owner, "site">>],
               K \cup {"task", "nonce", "email", "modification"}) :
        s \in Secrets, K \in SUBSET {"secret", "evaluation_url", "repo_name"} }

\* Bodies posted to /api-endpoint.
ApiBodies ==
    { Restrict([secret |-> s, round |-> r, evaluation_url |-> EvaluationUrl,
                task |-> TaskDemo, nonce |-> NonceN1, email |-> "a@b.c",
                brief |-> "hello page", repo_name |-> <<Owner, "site">>],
               K \cup {"task", "nonce", "email", "brief"}) :
        s \in Secrets, r \in 1..3,
        K \in SUBSET {"secret", "round", "evaluation_url", "repo_name"} }

(***************************************************************************)
(* FileSets: a dict is the sequence of its items in insertion order.       *)
(***************************************************************************)
File(p, c) == [path |-> p, content |-> c]

LlmPaths == {"index.html", "README.md", "error"}

\* Mutant: a key may come twice.
LlmFileSets_WithDuplicates ==
    UNION { [1..n -> {File(p, <<"generated">>) : p \in LlmPaths}] : n \in 0..MaxFiles }

\* The dicts json.loads may yield from the service's reply: up to MaxFiles
\* distinct keys, in any order.
LlmFileSets ==
    UNION { { f \in [1..n -> {File(p, <<"generated">>) : p \in LlmPaths}] :
                \A i, j \in 1..n : i # j => f[i].path # f[j].path } : n \in 0..MaxFiles }

\* Mutant: the fallback dict leaves out the script.
FallbackFileSet_NoScript(brief) ==
    << File("index.html", <<"default_html", brief>>), File("style.css", <<"default_css">>),
       File("README.md", <<"default_readme", brief>>) >>

\* llm_utils.generate_code's fallback dict: create_default_html(brief),
\* create_default_css(), create_default_js(), create_default_readme(brief).
FallbackFileSet(brief) ==
    << File("index.html", <<"default_html", brief>>), File("style.css", <<"default_css">>),
       File("script.js", <<"default_js">>), File("README.md", <<"default_readme", brief>>) >>

\* llm_utils.modify_code's sentinel dicts.
ParseErrorFileSet == << File("error", <<"Failed to parse modification response">>) >>
ModifyFailedFileSet == << File("error", <<"Modification failed: ", "connection failed">>) >>

\* Mutant: the key is added again, after the entries already there.
DictSet_Append(d, p, c) == Append(d, File(p, c))

\* {**d, key: value}: an existing key keeps its position and takes the value.
DictSet(d, p, c) ==
    IF \E i \in 1..Len(d) : d[i].path = p
    THEN [i \in 1..Len(d) |-> IF d[i].path = p THEN File(p, c) ELSE d[i]]
    ELSE Append(d, File(p, c))

\* Mutant: a README.md of the generated FileSet is kept as generated.
FilesToAdd_KeepsGenerated(files) ==
    IF \E i \in 1..Len(files) : files[i].path = "README.md"
    THEN DictSet(files, "LICENSE", <<"mit_license">>)
    ELSE DictSet(DictSet(files, "LICENSE", <<"mit_license">>), "README.md",
                 <<"readme", Get(data, "brief", ""), Get(data, "task", <<>>),
                   Get(data, "email", ""), repo_name>>)

\* add_files_to_repo's files_to_add
FilesToAdd(files) ==
    DictSet(DictSet(files, "LICENSE", <<"mit_license">>), "README.md",
            <<"readme", Get(data, "brief", ""), Get(data, "task", <<>>),
              Get(data, "email", ""), repo_name>>)

(***************************************************************************)
(* Names and URLs.                                                         *)
(***************************************************************************)
\* The upper-case letters of the model's alphabet and their lower-case forms.
UpperLetters == <<"A", "D", "E", "M", "N", "O">>
LowerLetters == <<"a", "d", "e", "m", "n", "o">>

\* str.lower() on one character
LowerChar(ch) ==
    IF \E i \in 1..Len(UpperLetters) : UpperLetters[i] = ch
    THEN LowerLetters[CHOOSE i \in 1..Len(UpperLetters) : UpperLetters[i] = ch]
    ELSE ch

\* Mutant: the name keeps the case of its parts.
Lower_KeepsCase(s) == s

\* str.lower()
Lower(s) == [i \in 1..Len(s) |-> LowerChar(s[i])]

\* str.replace(old, new) for one-character old and new
Replace(s, old, new) == [i \in 1..Len(s) |-> IF s[i] = old THEN new ELSE s[i]]

DigitChars == <<"0", "1", "2", "3", "4", "5", "6", "7", "8", "9">>

RECURSIVE IntStr(_)
\* str(n) of an int n >= 0, as the f-string formats it
IntStr(n) ==
    IF n < 10 THEN <<DigitChars[n + 1]>>
    ELSE IntStr(n \div 10) \o <<DigitChars[(n % 10) + 1]>>

\* int(time.time()) at clock reading t
Seconds(t) == StartSecond + (t \div TicksPerSecond)

\* f"iitm-{task}-{nonce}-{timestamp}"
NameFormat(task, nonce, timestamp) ==
    <<"i", "i", "t", "m", "-">> \o task \o <<"-">> \o nonce \o <<"-">> \o IntStr(timestamp)

\* f"iitm-{task}-{nonce}-{timestamp}".replace(" ", "-").lower(); the handler's
\* repo_name is this one name, without an owner
DeriveRepoName(task, nonce, timestamp) ==
    << Lower(Replace(NameFormat(task, nonce, timestamp), " ", "-")) >>

GithubUrl(name) == <<"https://github.com/", name>>

\* repo_url.split("github.com/")[1]
FullRepoName(url) == url[2]

\* Mutant: the pages URL is the repository's page on the host.
PagesUrlOf_RepoPage(name) == <<"https://github.com/", name>>

\* the pages URL of "owner/repo" or of a name without a slash
PagesUrlOf(name) ==
    IF Len(name) >= 2
    THEN <<"https://", name[1], ".github.io/", SubSeq(name, 2, Len(name)), "/">>
    ELSE <<"https://", name, ".github.io/">>

(***************************************************************************)
(* The log of external calls.                                              *)
(***************************************************************************)
\* sent: what the request carried (a file's content, a revision marker, a payload);
\* sha: the identifier the answer carried.
Call(op, target, path, sent, outcome, sha) ==
    [op |-> op, target |-> target, path |-> path, sent |-> sent, outcome |-> outcome,
     sha |-> sha]

\* The commit identifier the host gives the n-th call of the request.
CommitId(n) == ToString(n)

(***************************************************************************)
(* Exceptions and responses.                                               *)
(***************************************************************************)
HTTPException(status, detail) == [type |-> "HTTPException", status |-> status, detail |-> detail]
Exception(text) == [type |-> "Exception", status |-> 0, detail |-> text]
TypeError(text) == [type |-> "TypeError", status |-> 0, detail |-> text]
ClientError == [type |-> "ClientError", status |-> 0, detail |-> "connection failed"]

\* str(e)
Str(e) == IF e.type = "HTTPException" THEN <<ToString(e.status), ": ", e.detail>> ELSE <<e.detail>>

\* Every Exception subclass is an Exception, HTTPException included.
IsException(e) == e.type \in {"HTTPException", "Exception", "TypeError", "ClientError",
                               "TimeoutError"}

\* Mutant: the handler has no except clause of its own.
HandlerExcept_Reraises(prefix, e) == e

\* The handlers' try/except: `except Exception as e: raise HTTPException(500, ...)`.
HandlerExcept(prefix, e) ==
    IF IsException(e) THEN HTTPException(500, <<prefix, Str(e)>>) ELSE e

FailurePrefix == IF endpoint = "/iitm-round2" THEN "Round 2 processing failed: "
                                               ELSE "Task processing failed: "

\* What the framework sends for a handler that raised / returned.
Raised(e) == [status |-> e.status, body |-> [detail |-> e.detail]]
Returned(body) == [status |-> 200, body |-> body]
NoResponse == [status |-> 0, body |-> <<>>]

\* The handler raises e inside its try block.
Fail(e) ==
    /\ ret' = Raised(HandlerExcept(FailurePrefix, e))
    /\ pc' = "respond"

\* Mutant: a request without a secret skips the comparison.
SecretMismatch_SkipsMissing(provided, expected) == provided # NoneVal /\ provided # expected

\* provided_secret != EXPECTED_SECRET
SecretMismatch(provided, expected) == provided # expected

\* Positional parameters of llm_utils.generate_code and llm_utils.modify_code.
GenerateCodeParams == 2
ModifyCodeParams == 2

\* round_num of the request
RoundOf ==
    IF endpoint = "/iitm-task" THEN 1
    ELSE IF endpoint = "/iitm-round2" THEN 2
    ELSE Get(data, "round", 1)

EvaluationUrlOf == Get(data, "evaluation_url", "")

\* Mutant: evaluation_sent reports whether the callback was delivered.
SuccessBody_SentIfDelivered(round, rurl, purl, commit) ==
    IF round = 1
    THEN [status |-> "success", message |-> "Task completed successfully",
          repo_url |-> rurl, pages_url |-> purl,
          evaluation_sent |-> (cb_result = "True")]
    ELSE [status |-> "success", round |-> round,
          message |-> "Code modified and updated in repo", commit_sha |-> commit]

\* The dict a successful handler returns.
SuccessBody(round, rurl, purl, commit) ==
    IF round = 1
    THEN [status |-> "success", message |-> "Task completed successfully",
          repo_url |-> rurl, pages_url |-> purl,
          evaluation_sent |-> Truthy(EvaluationUrlOf)]
    ELSE [status |-> "success", round |-> round,
          message |-> "Code modified and updated in repo", commit_sha |-> commit]

\* Mutant: the payload carries no nonce.
EvaluationPayload_NoNonce(round, rurl, purl, commit) ==
    [email |-> Get(data, "email", ""), task |-> Get(data, "task", <<>>), round |-> round,
     repo_url |-> rurl, commit_sha |-> commit, pages_url |-> purl]

\* evaluation_response
EvaluationPayload(round, rurl, purl, commit) ==
    [email |-> Get(data, "email", ""), task |-> Get(data, "task", <<>>), round |-> round,
     nonce |-> Get(data, "nonce", <<>>), repo_url |-> rurl, commit_sha |-> commit,
     pages_url |-> purl]

reqvars == <<EXPECTED_SECRET, endpoint, data, now, derived, frames>>
pubvars == <<code_files, files_to_add, idx, file_sha, commit_sha, repo_url, pages_url>>
cbvars == <<cb_attempt, cb_events, cb_last, cb_result, cb_first200>>

(***************************************************************************)
(* Initial states: the configuration as loaded and one request received.   *)
(***************************************************************************)
Init ==
    /\ EXPECTED_SECRET \in {NoneVal, "s3cr3t"}
    /\ \E e \in {"/api-endpoint", "/iitm-task", "/iitm-round2"} :
          /\ endpoint = e
          /\ data \in (IF e = "/api-endpoint" THEN ApiBodies
                       ELSE IF e = "/iitm-task" THEN TaskBodies ELSE Round2Bodies)
    /\ pc = "start"
    /\ repo_name = <<>>
    /\ code_files = <<>>
    /\ files_to_add = <<>>
    /\ idx = 1
    /\ file_sha = NoneVal
    /\ commit_sha = NoneVal
    /\ repo_url = <<>>
    /\ pages_url = <<>>
    /\ calls = <<>>
    /\ cb_attempt = 0
    /\ cb_events = <<>>
    /\ cb_last = NoOutcome
    /\ cb_result = NoneVal
    /\ cb_first200 = 0
    /\ ret = NoResponse
    /\ resp = NoResponse
    /\ now = 0
    /\ derived = <<>>
    /\ frames = <<>>

(***************************************************************************)
(* app.py handle_iitm_task, up to its first await.                         *)
(***************************************************************************)
ApiEndpoint ==
    /\ pc = "start"
    /\ endpoint = "/api-endpoint"
    /\ UNCHANGED <<reqvars, pubvars, cbvars, calls, resp>>
    /\ IF SecretMismatch(Get(data, "secret", NoneVal), EXPECTED_SECRET)
       THEN Fail(HTTPException(401, "Invalid secret")) /\ UNCHANGED repo_name
       ELSE IF RoundOf = 1
       THEN /\ repo_name' = DeriveRepoName(Get(data, "task", <<>>), Get(data, "nonce", <<>>), Seconds(now))
            /\ IF 3 > GenerateCodeParams   \* generate_code(brief, attachments, checks)
               THEN Fail(TypeError("generate_code() takes from 1 to 2 positional arguments but 3 were given"))
               ELSE pc' = "generate" /\ UNCHANGED ret
       ELSE IF RoundOf = 2
       THEN /\ repo_name' = Get(data, "repo_name", <<>>)
            /\ IF ~NonEmpty(repo_name')
               THEN Fail(HTTPException(400, "repo_name required for round 2"))
               ELSE IF 3 > ModifyCodeParams   \* modify_code(brief, repo_name, checks)
               THEN Fail(TypeError("modify_code() takes 2 positional arguments but 3 were given"))
               ELSE pc' = "modify" /\ UNCHANGED ret
       ELSE /\ repo_name' = Get(data, "repo_name", <<>>)
            /\ Fail(HTTPException(400, "Invalid round number. Must be 1 or 2"))

(***************************************************************************)
(* main.py handle_iitm_task and handle_round2, up to their first await.    *)
(***************************************************************************)
IitmTask ==
    /\ pc = "start"
    /\ endpoint = "/iitm-task"
    /\ UNCHANGED <<reqvars, pubvars, cbvars, calls, resp>>
    /\ IF SecretMismatch(Get(data, "secret", NoneVal), EXPECTED_SECRET)
       THEN Fail(HTTPException(401, "Invalid secret")) /\ UNCHANGED repo_name
       ELSE /\ repo_name' = DeriveRepoName(Get(data, "task", <<>>), Get(data, "nonce", <<>>), Seconds(now))
            /\ IF 2 > GenerateCodeParams   \* generate_code(brief, attachments)
               THEN Fail(TypeError("generate_code() takes from 1 to 2 positional arguments"))
               ELSE pc' = "generate" /\ UNCHANGED ret

Round2 ==
    /\ pc = "start"
    /\ endpoint = "/iitm-round2"
    /\ UNCHANGED <<reqvars, pubvars, cbvars, calls, resp>>
    /\ IF SecretMismatch(Get(data, "secret", NoneVal), EXPECTED_SECRET)
       THEN Fail(HTTPException(401, "Invalid secret")) /\ UNCHANGED repo_name
       ELSE /\ repo_name' = Get(data, "repo_name", <<>>)
            /\ IF 2 > ModifyCodeParams   \* modify_code(modification, repo_name)
               THEN Fail(TypeError("modify_code() takes 2 positional arguments"))
               ELSE pc' = "modify" /\ UNCHANGED ret

(***************************************************************************)
(* The tail of a handler once publishing is over: the callback when an     *)
(* evaluation_url was given, then the return.                              *)
(***************************************************************************)
\* Mutant: the callback is not awaited; the handler returns at once.
AfterPublish_NoAwait(rurl, purl, commit) ==
    /\ pc' = "respond"
    /\ ret' = Returned(SuccessBody(RoundOf, rurl, purl, commit))
    /\ UNCHANGED cbvars

\* Mutant: the callback is delivered whether or not a URL was given.
AfterPublish_AlwaysCalls(rurl, purl, commit) ==
    /\ pc' = "cb_post"
    /\ cb_attempt' = 0
    /\ UNCHANGED <<cb_events, cb_last, cb_result, cb_first200, ret>>

AfterPublish(rurl, purl, commit) ==
    IF Truthy(EvaluationUrlOf)
    THEN /\ pc' = "cb_post"      \* await send_evaluation_callback_with_retry(...)
         /\ cb_attempt' = 0
         /\ UNCHANGED <<cb_events, cb_last, cb_result, cb_first200, ret>>
    ELSE /\ pc' = "respond"
         /\ ret' = Returned(SuccessBody(RoundOf, rurl, purl, commit))
         /\ UNCHANGED cbvars

\* a or b, on str-or-None
Or(a, b) == IF Truthy(a) THEN a ELSE b

(***************************************************************************)
(* llm_utils.generate_code: one POST to the generation service.            *)
(***************************************************************************)
GenerateCode ==
    /\ pc = "generate"
    /\ \E o \in LlmOutcomes :
          /\ calls' = Append(calls, Call("generate", "aipipe", "", Get(data, "brief", ""), o, NoneVal))
          /\ IF o = Response(200)
             THEN \/ code_files' \in LlmFileSets           \* json.loads succeeded
                  \/ code_files' = FallbackFileSet(Get(data, "brief", ""))   \* json.JSONDecodeError
             ELSE code_files' = FallbackFileSet(Get(data, "brief", ""))      \* except Exception
    /\ pc' = "create_repo"
    /\ UNCHANGED <<reqvars, repo_name, files_to_add, idx, file_sha, commit_sha, repo_url,
                   pages_url, cbvars, ret, resp>>

(***************************************************************************)
(* github_utils.create_repo: POST /user/repos, then add_files_to_repo.     *)
(***************************************************************************)
\* Mutant: 200 OK is taken for a created repository too.
CreateSucceeded_Any2xx(o) == o.status \in {200, 201}

\* Mutant: the status of the answer is not looked at.
CreateSucceeded_Unchecked(o) == TRUE

\* create_repo: `if response.status == 201`
CreateSucceeded(o) == o.status = 201

CreateRepo ==
    /\ pc = "create_repo"
    /\ \E o \in GithubOutcomes :
          /\ calls' = Append(calls, Call("create_repo", repo_name, "", "", o, NoneVal))
          /\ IF Raises(o)
             THEN /\ Fail(ClientError)
                  /\ UNCHANGED <<files_to_add, idx, commit_sha, repo_url>>
             ELSE IF CreateSucceeded(o)
             THEN /\ repo_url' = GithubUrl(<<Owner>> \o repo_name)   \* repo_info["html_url"]
                  /\ files_to_add' = FilesToAdd(code_files)
                  /\ idx' = 1
                  /\ commit_sha' = NoneVal
                  /\ pc' = "add_file"
                  /\ UNCHANGED ret
             ELSE /\ Fail(Exception("Failed to create repository"))
                  /\ UNCHANGED <<files_to_add, idx, commit_sha, repo_url>>
    /\ UNCHANGED <<reqvars, repo_name, code_files, file_sha, pages_url, cbvars, resp>>

\* add_file_to_repo's return value for the PUT's outcome
AddFileResult(o, commit) == IF o.status \in {200, 201} THEN commit ELSE "unknown"

\* add_files_to_repo: `if sha and not commit_sha: commit_sha = sha`
KeepFirstSha(current, sha) == IF Truthy(sha) /\ ~Truthy(current) THEN sha ELSE current

(***************************************************************************)
(* One iteration of add_files_to_repo's loop: add_file_to_repo's PUT.      *)
(***************************************************************************)
AddFile ==
    /\ pc = "add_file"
    /\ idx <= Len(files_to_add)
    /\ \E o \in GithubOutcomes :
          LET sha == AddFileResult(o, CommitId(Len(calls) + 1))
              kept == KeepFirstSha(commit_sha, sha)
          IN /\ calls' = Append(calls, Call("put_file", repo_name, files_to_add[idx].path,
                                            files_to_add[idx].content, o,
                                            IF Raises(o) THEN NoneVal ELSE sha))
             /\ IF Raises(o)
                THEN /\ Fail(ClientError)
                     /\ UNCHANGED <<idx, commit_sha>>
                ELSE /\ idx' = idx + 1
                     /\ UNCHANGED ret
                     /\ IF idx < Len(files_to_add)
                        THEN commit_sha' = kept /\ pc' = "add_file"
                        ELSE commit_sha' = Or(kept, "unknown") /\ pc' = "pages"
    /\ UNCHANGED <<reqvars, repo_name, code_files, files_to_add, file_sha, repo_url,
                   pages_url, cbvars, resp>>

(***************************************************************************)
(* github_utils.enable_github_pages, and the handler up to its next await. *)
(***************************************************************************)
EnablePages ==
    /\ pc = "pages"
    /\ \E o \in GithubOutcomes :
          LET full == FullRepoName(repo_url)
              purl == IF o.status \in {200, 201} THEN PagesUrlOf(full) ELSE GithubUrl(full)
          IN /\ calls' = Append(calls, Call("pages", full, "", "", o, NoneVal))
             /\ IF Raises(o)
                THEN Fail(ClientError) /\ UNCHANGED <<pages_url, cbvars>>
                ELSE /\ pages_url' = purl
                     /\ AfterPublish(repo_url, purl, commit_sha)
    /\ UNCHANGED <<reqvars, repo_name, code_files, files_to_add, idx, file_sha, commit_sha,
                   repo_url, resp>>

(***************************************************************************)
(* github_utils.update_repo.                                               *)
(***************************************************************************)
\* Mutant: the sentinel entry is processed like any file.
SkipErrors_None(files, i) == i

RECURSIVE SkipErrors(_, _)
\* `if filename == "error": continue`: the next position at or after i to process
SkipErrors(files, i) ==
    IF i <= Len(files) /\ files[i].path = "error" THEN SkipErrors(files, i + 1) ELSE i

\* The loop moves to position i; past the end update_repo returns and the
\* round-2 handler derives the pages URL and goes on.
UpdateAdvance(files, i, commit) ==
    /\ idx' = SkipErrors(files, i)
    /\ IF idx' <= Len(files)
       THEN /\ commit_sha' = commit
            /\ pc' = "update_get"
            /\ UNCHANGED <<repo_url, pages_url, cbvars, ret>>
       ELSE /\ commit_sha' = Or(commit, "unknown")
            /\ repo_url' = GithubUrl(repo_name)
            /\ pages_url' = PagesUrlOf(repo_name)
            /\ AfterPublish(repo_url', pages_url', commit_sha')

(***************************************************************************)
(* llm_utils.modify_code: one POST to the generation service; update_repo  *)
(* starts on its result.                                                   *)
(***************************************************************************)
ModifyCode ==
    /\ pc = "modify"
    /\ \E o \in LlmOutcomes :
          /\ calls' = Append(calls, Call("modify", "aipipe", "", Get(data, "modification", ""), o, NoneVal))
          /\ IF o = Response(200)
             THEN \/ code_files' \in LlmFileSets           \* json.loads succeeded
                  \/ code_files' = ParseErrorFileSet       \* json.JSONDecodeError
             ELSE code_files' = ModifyFailedFileSet        \* except Exception
    /\ files_to_add' = code_files'
    /\ UpdateAdvance(code_files', 1, NoneVal)
    /\ UNCHANGED <<reqvars, repo_name, file_sha, resp>>

\* Mutant: any 2xx answer to the GET is taken for the file's info.
MarkerFetched_Any2xx(o) == o.status \in {200, 201}

\* Mutant: the file is updated whatever the GET answered.
MarkerFetched_Always(o) == TRUE

\* update_repo: `if response.status == 200:` on the GET
MarkerFetched(o) == o.status = 200

\* update_repo's GET of the file's current revision marker
UpdateGet ==
    /\ pc = "update_get"
    /\ \E o \in GithubOutcomes :
          /\ calls' = Append(calls, Call("get_file", repo_name, files_to_add[idx].path, "", o,
                                         IF o = Response(200) THEN CommitId(Len(calls) + 1)
                                                              ELSE NoneVal))
          /\ IF Raises(o)
             THEN /\ Fail(ClientError)
                  /\ UNCHANGED <<idx, file_sha, commit_sha, repo_url, pages_url, cbvars>>
             ELSE IF MarkerFetched(o)
             THEN /\ file_sha' = CommitId(Len(calls) + 1)    \* file_info["sha"]
                  /\ pc' = "update_put"
                  /\ UNCHANGED <<idx, commit_sha, repo_url, pages_url, cbvars, ret>>
             ELSE /\ UpdateAdvance(files_to_add, idx + 1, commit_sha)
                  /\ UNCHANGED file_sha
    /\ UNCHANGED <<reqvars, repo_name, code_files, files_to_add, resp>>

\* Mutant: every successful update overwrites the identifier.
UpdateResult_Latest(current, o, commit) ==
    IF o.status \in {200, 201} THEN commit ELSE current

\* update_repo: `if not commit_sha: commit_sha = result...["sha"]` on a 200/201
UpdateResult(current, o, commit) ==
    IF o.status \in {200, 201} /\ ~Truthy(current) THEN commit ELSE current

\* update_repo's PUT of the file with the marker fetched
UpdatePut ==
    /\ pc = "update_put"
    /\ \E o \in GithubOutcomes :
          /\ calls' = Append(calls, Call("update_file", repo_name, files_to_add[idx].path,
                                         file_sha, o,
                                         IF o.status \in {200, 201} THEN CommitId(Len(calls) + 1)
                                                                    ELSE NoneVal))
          /\ IF Raises(o)
             THEN /\ Fail(ClientError)
                  /\ UNCHANGED <<idx, commit_sha, repo_url, pages_url, cbvars>>
             ELSE UpdateAdvance(files_to_add, idx + 1,
                                UpdateResult(commit_sha, o, CommitId(Len(calls) + 1)))
    /\ UNCHANGED <<reqvars, repo_name, code_files, files_to_add, file_sha, resp>>

(***************************************************************************)
(* send_evaluation_callback_with_retry.                                    *)
(***************************************************************************)
\* Mutant: a linear schedule.
delays_Linear == <<1, 2, 3, 4, 5, 6>>

delays == <<1, 2, 4, 8, 16, 32>>

PostEvent == [ev |-> "post", delay |-> 0]
SleepEvent(d) == [ev |-> "sleep", delay |-> d]

\* Mutant: any 2xx status counts as delivered.
CallbackSucceeded_Any2xx(o) == o.kind = "response" /\ o.status \in 200..299

\* Mutant: the status compared with is 201.
CallbackSucceeded_Created(o) == o.kind = "response" /\ o.status = 201

\* `if response.status == 200`
CallbackSucceeded(o) == o.kind = "response" /\ o.status = 200

\* What session.post raises for an outcome that is no response.
RaisedBy(o) == IF o.kind = "timeout"
               THEN [type |-> "TimeoutError", status |-> 0, detail |-> "timeout"]
               ELSE ClientError

\* `except Exception as e` around the POST: asyncio.TimeoutError and
\* aiohttp.ClientError are both Exceptions.
CallbackCatches(e) == IsException(e)

\* Mutant: the last attempt is followed by a sleep too.
SleepsAfter_EveryAttempt(attempt) == attempt < Len(delays)

\* `if attempt < len(delays) - 1`, attempt counted from 0
SleepsAfter(attempt) == attempt < Len(delays) - 1

\* Mutant: the loop has no last iteration.
HasIteration_Unbounded(attempt) == TRUE

\* `for attempt, delay in enumerate(delays)`: is there an iteration number attempt
HasIteration(attempt) == attempt < Len(delays)

\* Mutant: the handler turns a failed delivery into an error.
CallbackReturn_RaisesOnFailure(result) ==
    /\ cb_result' = result
    /\ IF result = "True"
       THEN /\ pc' = "respond"
            /\ ret' = Returned(SuccessBody(RoundOf, repo_url, pages_url, commit_sha))
       ELSE Fail(Exception("evaluation callback failed"))

\* The function returns result and the awaiting handler returns its dict.
CallbackReturn(result) ==
    /\ cb_result' = result
    /\ pc' = "respond"
    /\ ret' = Returned(SuccessBody(RoundOf, repo_url, pages_url, commit_sha))

\* One iteration's POST, up to the return or the sleep.
CallbackPost ==
    /\ pc = "cb_post"
    /\ \E o \in CallbackOutcomes :
          \* the POST's outcome is kept in cb_last, not in the log
          /\ calls' = Append(calls, Call("callback", EvaluationUrlOf, "",
                                         EvaluationPayload(RoundOf, repo_url, pages_url, commit_sha),
                                         NoOutcome, NoneVal))
          /\ cb_events' = Append(cb_events, PostEvent)
          /\ cb_last' = o
          /\ cb_first200' = IF cb_first200 = 0 /\ o = Response(200) THEN cb_attempt + 1
                                                                   ELSE cb_first200
          /\ IF Raises(o) /\ ~CallbackCatches(RaisedBy(o))
             THEN Fail(RaisedBy(o)) /\ UNCHANGED <<cb_attempt, cb_result>>
             ELSE IF ~Raises(o) /\ CallbackSucceeded(o)
             THEN CallbackReturn("True") /\ UNCHANGED cb_attempt
             ELSE IF SleepsAfter(cb_attempt)
             THEN pc' = "cb_sleep" /\ UNCHANGED <<cb_attempt, cb_result, ret>>
             ELSE IF HasIteration(cb_attempt + 1)
             THEN /\ cb_attempt' = cb_attempt + 1
                  /\ pc' = "cb_post"
                  /\ UNCHANGED <<cb_result, ret>>
             ELSE CallbackReturn("False") /\ UNCHANGED cb_attempt
    /\ UNCHANGED <<reqvars, repo_name, pubvars, resp>>

\* `await asyncio.sleep(delay)`, then the next iteration or the loop's end.
CallbackSleep ==
    /\ pc = "cb_sleep"
    /\ cb_events' = Append(cb_events, SleepEvent(delays[cb_attempt + 1]))
    /\ IF HasIteration(cb_attempt + 1)
       THEN /\ cb_attempt' = cb_attempt + 1
            /\ pc' = "cb_post"
            /\ UNCHANGED <<cb_result, ret>>
       ELSE CallbackReturn("False") /\ UNCHANGED cb_attempt
    /\ UNCHANGED <<reqvars, repo_name, pubvars, calls, cb_last, cb_first200, resp>>

(***************************************************************************)
(* The framework sends what the handler returned or raised.                *)
(***************************************************************************)
Respond ==
    /\ pc = "respond"
    /\ resp' = ret
    /\ pc' = "done"
    /\ UNCHANGED <<reqvars, repo_name, pubvars, cbvars, calls, ret>>

Next ==
    \/ ApiEndpoint
    \/ IitmTask
    \/ Round2
    \/ GenerateCode
    \/ CreateRepo
    \/ AddFile
    \/ EnablePages
    \/ ModifyCode
    \/ UpdateGet
    \/ UpdatePut
    \/ CallbackPost
    \/ CallbackSleep
    \/ Respond

Spec == Init /\ [][Next]_vars

(***************************************************************************)
(* The name derivation on its own: round-1 requests arriving over time in  *)
(* one process, each deriving its repository name from its task, its nonce *)
(* and the clock.                                                          *)
(***************************************************************************)
NameAlphabet == {"A", " ", "b"}
NameTasks == UNION { [1..n -> NameAlphabet] : n \in 0..MaxLen }
NameNonces == {NonceN1, <<"N", " ", "1">>}

Derivation(task, nonce, timestamp) ==
    [task |-> task, nonce |-> nonce, timestamp |-> timestamp,
     name |-> DeriveRepoName(task, nonce, timestamp)[1]]

InitNames ==
    /\ Init
    /\ EXPECTED_SECRET = "s3cr3t"
    /\ endpoint = "/iitm-task"
    /\ DOMAIN data = {"secret", "evaluation_url", "task", "nonce", "email", "brief"}
    /\ data.secret = "s3cr3t"

\* The clock advances by one tick.
Tick ==
    /\ now < MaxTicks
    /\ now' = now + 1
    /\ UNCHANGED <<EXPECTED_SECRET, endpoint, data, derived, frames, pc, repo_name, pubvars,
                   cbvars, calls, ret, resp>>

\* `timestamp = int(time.time())` and the repo_name assignment of a round-1
\* request with the given task and nonce.
DeriveName ==
    /\ Len(derived) < MaxRequests
    /\ \E task \in NameTasks, nonce \in NameNonces :
          derived' = Append(derived, Derivation(task, nonce, Seconds(now)))
    /\ UNCHANGED <<EXPECTED_SECRET, endpoint, data, now, frames, pc, repo_name, pubvars,
                   cbvars, calls, ret, resp>>

NextNames ==
    \/ Tick
    \/ DeriveName

SpecNames == InitNames /\ [][NextNames]_vars

(***************************************************************************)
(* Derived views of the state used by the properties.                      *)
(***************************************************************************)
Responded == resp # NoResponse

ProvidedSecret == Get(data, "secret", NoneVal)

\* The number of callback POSTs made so far.
Posts == Len(SelectSeq(cb_events, LAMBDA e : e.ev = "post"))

\* The delays slept so far, in order.
Waits == LET sleeps == SelectSeq(cb_events, LAMBDA e : e.ev = "sleep")
         IN [i \in 1..Len(sleeps) |-> sleeps[i].delay]

CallbackReturned == cb_result # NoneVal

CallbackPending == pc \in {"cb_post", "cb_sleep"}

\* The file writes of add_files_to_repo made so far, in order.
Puts == SelectSeq(calls, LAMBDA c : c.op = "put_file")

WriteSucceeded(c) == c.outcome.kind = "response" /\ c.outcome.status \in {200, 201}

(***************************************************************************)
(* C1: a request whose secret differs from the configured secret is        *)
(* answered with status 401.  (Fails: the handlers' own `except Exception` *)
(* catches the HTTPException(401) and re-raises it as a 500.)              *)
(***************************************************************************)
C1_MismatchAnswered401 ==
    (Responded /\ ProvidedSecret # EXPECTED_SECRET) => resp.status = 401

(***************************************************************************)
(* C2: for a request whose secret differs from the configured secret no    *)
(* external call is ever issued, on any entry point and in any round.      *)
(***************************************************************************)
C2_MismatchIssuesNoCall ==
    ProvidedSecret # EXPECTED_SECRET => calls = <<>> /\ pc \in {"start", "respond", "done"}

C2_Witness ==
    /\ pc = "done"
    /\ Responded
    /\ ProvidedSecret = "wrong"
    /\ EXPECTED_SECRET = "s3cr3t"
    /\ endpoint = "/iitm-round2"

(***************************************************************************)
(* C3: a request without a secret field is rejected as an authorization    *)
(* failure and never processed, whatever the configured secret.  (Fails:   *)
(* with EXPECTED_SECRET unset, None != None is false and the request is    *)
(* processed.)                                                             *)
(***************************************************************************)
C3_MissingSecretRejected ==
    "secret" \notin DOMAIN data =>
        /\ pc \in {"start", "respond", "done"}
        /\ calls = <<>>
        /\ Responded => resp.status = 401

(***************************************************************************)
(* C4: when no callback POST is answered 200, the function makes exactly   *)
(* 6 POSTs and exactly 5 waits, the last event being a POST, and returns   *)
(* False.                                                                  *)
(***************************************************************************)
C4_ExhaustsAfterSixAttempts ==
    (CallbackReturned /\ cb_first200 = 0) =>
        /\ Posts = 6
        /\ Len(Waits) = 5
        /\ cb_events[Len(cb_events)].ev = "post"
        /\ cb_result = "False"

C4_Witness ==
    /\ CallbackReturned
    /\ cb_first200 = 0
    /\ cb_last = Response(500)
    /\ Responded

(***************************************************************************)
(* C5 as claimed: when no POST is answered 200 the waits are 1, 2, 4, 8,   *)
(* 16 and 32 seconds.                                                      *)
(***************************************************************************)
C5_Original_SixWaits ==
    (CallbackReturned /\ cb_first200 = 0) => Waits = <<1, 2, 4, 8, 16, 32>>

(***************************************************************************)
(* C5 as amended: when no POST is answered 200 the waits between the six   *)
(* attempts are, in order, 1, 2, 4, 8 and 16 seconds; 32 is never waited.  *)
(***************************************************************************)
C5_WaitsAreFirstFiveDelays ==
    /\ (CallbackReturned /\ cb_first200 = 0) => Waits = <<1, 2, 4, 8, 16>>
    /\ \A i \in 1..Len(Waits) : Waits[i] # 32

C5_Witness ==
    /\ cb_result = "False"
    /\ cb_last = Timeout
    /\ Waits = <<1, 2, 4, 8, 16>>

(***************************************************************************)
(* C6: if the first 200 answers the k-th POST (k in 1..6), then exactly k  *)
(* POSTs are made, the waits are the first k-1 delays in order, the        *)
(* function returns True, and no POST or wait follows the 200.             *)
(***************************************************************************)
C6_StopsAtFirst200 ==
    cb_first200 # 0 =>
        /\ cb_first200 \in 1..6
        /\ Posts = cb_first200
        /\ Waits = SubSeq(<<1, 2, 4, 8, 16, 32>>, 1, cb_first200 - 1)
        /\ cb_events[Len(cb_events)].ev = "post"
        /\ cb_result = "True"

C6_Witness ==
    /\ cb_first200 = 6
    /\ cb_result = "True"
    /\ pc = "done"

(***************************************************************************)
(* C7: a callback attempt succeeds only on status exactly 200; any other   *)
(* status, network exception or timeout is a failed attempt, followed by   *)
(* a retry unless it was the sixth, and never raises out of the function.  *)
(***************************************************************************)
C7_OnlyStatus200Succeeds ==
    /\ cb_result = "True" => cb_last = Response(200)
    /\ (cb_last # NoOutcome /\ cb_last # Response(200)) =>
          /\ cb_result # "True"
          /\ Posts < 6 => (~CallbackReturned /\ CallbackPending)
          /\ Posts = 6 => cb_result = "False"
    /\ Posts > 0 => ret.status \in {0, 200}

C7_Witness ==
    /\ cb_last = Response(201)
    /\ Posts = 3
    /\ pc = "cb_sleep"

(***************************************************************************)
(* C8: with an evaluation_url, the client-facing response is the success   *)
(* response computed from the publish results alone, whether delivery      *)
(* returned True or exhausted its retries.                                 *)
(***************************************************************************)
C8_ResponseIgnoresDeliveryResult ==
    (Responded /\ CallbackReturned) =>
        resp = Returned(SuccessBody(RoundOf, repo_url, pages_url, commit_sha))

C8_Witness ==
    /\ Responded
    /\ cb_result = "False"
    /\ Truthy(EvaluationUrlOf)
    /\ resp.status = 200

(***************************************************************************)
(* C9 as claimed: while callback attempts or backoff waits are pending the *)
(* client-facing response can be produced.                                 *)
(***************************************************************************)
C9_Original_ResponseNotGated ==
    CallbackPending => ENABLED Respond

(***************************************************************************)
(* C9 as amended: delivery is awaited inline.  While attempts or waits are *)
(* pending no response has been produced, and a success response to a     *)
(* request with an evaluation_url is produced only after the function has  *)
(* returned.                                                               *)
(***************************************************************************)
C9_ResponseAwaitsDelivery ==
    /\ CallbackPending => (~Responded /\ ~ENABLED Respond)
    /\ ((Responded \/ pc = "respond") /\ ret.status = 200 /\ Truthy(EvaluationUrlOf))
          => CallbackReturned

C9_Witness ==
    /\ pc = "done"
    /\ resp.status = 200
    /\ Truthy(EvaluationUrlOf)
    /\ cb_result = "True"
    /\ Waits = <<1, 2>>

(***************************************************************************)
(* C10: when create_repo's batch is over and at least one file write       *)
(* succeeded, commit_sha is the commit identifier returned by the first    *)
(* write that succeeded.  (Fails: a failed write returns the truthy        *)
(* "unknown", which is kept as the first sha.)                             *)
(***************************************************************************)
C10_CommitShaOfFirstSuccessfulWrite ==
    (pc = "pages" /\ Len(Puts) >= 2 /\ \E i \in 1..Len(Puts) : WriteSucceeded(Puts[i])) =>
        LET first == CHOOSE i \in 1..Len(Puts) :
                        /\ WriteSucceeded(Puts[i])
                        /\ \A j \in 1..(i - 1) : ~WriteSucceeded(Puts[j])
        IN commit_sha = Puts[first].sha

(***************************************************************************)
(* update_repo and the sentinel entry.                                     *)
(***************************************************************************)
Gets == SelectSeq(calls, LAMBDA c : c.op = "get_file")
Updates == SelectSeq(calls, LAMBDA c : c.op = "update_file")
UpdateSucceeded(c) ==
    c.op = "update_file" /\ ~Raises(c.outcome) /\ c.outcome.status \in {200, 201}

\* update_repo has returned to handle_round2.
UpdateRepoReturned == endpoint = "/iitm-round2" /\ NonEmpty(pages_url)

\* The latest call is a file update that failed after an earlier one succeeded.
LaterUpdateFailed ==
    /\ calls # <<>>
    /\ calls[Len(calls)].op = "update_file"
    /\ ~UpdateSucceeded(calls[Len(calls)])
    /\ \E j \in 1..(Len(calls) - 1) : UpdateSucceeded(calls[j])

\* C11 (as stated): update_repo's commit identifier is the one of the first
\* file update that succeeded, and a later file update that fails, however
\* it fails, never aborts the batch or raises to the caller.
C11_Original_LaterFailureNeverRaises ==
    (endpoint = "/iitm-round2" /\ LaterUpdateFailed) => ret.status # 500

\* C11 (amended): update_repo's commit identifier is the one of the first
\* file update that succeeded and no later update changes it; an update
\* answered with a failure status does not end the batch: every entry but
\* the sentinel is fetched, every fetch answered 200 is followed by its
\* update, and the request fails only when a call raised a network-level
\* exception.
C11_FirstSuccessfulUpdateKept ==
    endpoint = "/iitm-round2" =>
        LET S == SelectSeq(calls, UpdateSucceeded)
        IN /\ S # <<>> => commit_sha = S[1].sha
           /\ S = <<>> => commit_sha \in {NoneVal, "unknown"}
           /\ (ret.status = 500 /\ calls # <<>>) => Raises(calls[Len(calls)].outcome)
           /\ UpdateRepoReturned =>
                 /\ Len(Gets) = Cardinality({i \in 1..Len(code_files) :
                                                code_files[i].path # "error"})
                 /\ Len(Updates) = Len(SelectSeq(Gets, LAMBDA c : c.outcome = Response(200)))

\* update_repo returned the first update's identifier although the second
\* update was answered with a failure status.
C11_Witness ==
    /\ UpdateRepoReturned
    /\ Len(Updates) = 2
    /\ UpdateSucceeded(Updates[1])
    /\ Updates[2].outcome = Response(422)
    /\ commit_sha = Updates[1].sha

\* C12: a round-2 update whose FileSet is the sentinel entry alone fetches
\* no revision marker, updates no file and yields commit_sha "unknown".
C12_SentinelOnlyUpdatesNothing ==
    (endpoint = "/iitm-round2" /\ Len(code_files) = 1 /\ code_files[1].path = "error") =>
        /\ Gets = <<>>
        /\ Updates = <<>>
        /\ commit_sha = "unknown"
        /\ (Responded /\ resp.status = 200) => resp.body.commit_sha = "unknown"

\* modify_code answered with its sentinel dict and the request was answered.
C12_Witness ==
    /\ endpoint = "/iitm-round2"
    /\ code_files = ParseErrorFileSet
    /\ pc = "done"
    /\ resp.status = 200

\* C13 (as stated): no file write, on the create path or on the update
\* path, is issued for the path "error".
C13_SentinelNeverWritten ==
    \A k \in 1..Len(calls) :
        calls[k].op \in {"put_file", "update_file"} => calls[k].path # "error"

(***************************************************************************)
(* Repository names.                                                       *)
(***************************************************************************)
\* C14 (as stated): any two round-1 requests handled in one process derive
\* different repository names, also when they carry the same task and nonce
\* and are handled within the same clock second.
C14_NamesDiffer ==
    \A i, j \in 1..Len(derived) : i # j => derived[i].name # derived[j].name

HasChar(s, ch) == \E k \in 1..Len(s) : s[k] = ch
HasUpper(s) == \E k \in 1..Len(s) : s[k] \in {UpperLetters[u] : u \in 1..Len(UpperLetters)}

\* C15: a derived name is "iitm-", the task, "-", the nonce, "-" and the
\* timestamp's digits, with every space turned into a hyphen and every letter
\* lower-cased: it holds no space and no upper-case letter, has the length of
\* its parts, and keeps every other character of the task in place.
C15_NameIsLowerCasedAndHyphenated ==
    \A i \in 1..Len(derived) :
        LET d == derived[i]
            n == d.name
            stamp == IntStr(d.timestamp)
        IN /\ ~HasChar(n, " ")
           /\ ~HasUpper(n)
           /\ Len(n) = 5 + Len(d.task) + 1 + Len(d.nonce) + 1 + Len(stamp)
           /\ SubSeq(n, 1, 5) = <<"i", "i", "t", "m", "-">>
           /\ SubSeq(n, Len(n) - Len(stamp), Len(n)) = <<"-">> \o stamp
           /\ \A k \in 1..Len(d.task) :
                 /\ d.task[k] = " " => n[5 + k] = "-"
                 /\ (d.task[k] # " " /\ ~HasUpper(<<d.task[k]>>)) => n[5 + k] = d.task[k]

\* A name was derived from a task holding a space and an upper-case letter
\* and a nonce holding both too.
C15_Witness ==
    \E i \in 1..Len(derived) :
        /\ HasChar(derived[i].task, " ") /\ HasUpper(derived[i].task)
        /\ HasChar(derived[i].nonce, " ") /\ HasUpper(derived[i].nonce)

(***************************************************************************)
(* Validation of the request.                                              *)
(***************************************************************************)
\* The request carries the configured secret.
ValidSecret == EXPECTED_SECRET # NoneVal /\ ProvidedSecret = EXPECTED_SECRET

\* C16 (as stated): a request with a valid secret whose round is neither 1
\* nor 2 triggers no external call and is answered with status 400.
C16_InvalidRoundAnswered400 ==
    (ValidSecret /\ "round" \in DOMAIN data /\ data.round \notin {1, 2}) =>
        /\ calls = <<>>
        /\ Responded => resp.status = 400

\* The request is handled as round 2 and names no repository.
Round2WithoutRepoName ==
    /\ \/ endpoint = "/iitm-round2"
       \/ endpoint = "/api-endpoint" /\ RoundOf = 2
    /\ ~NonEmpty(Get(data, "repo_name", <<>>))

\* C17 (as stated): a round-2 request with a valid secret and no repo_name
\* triggers no external call and is answered with status 400, on
\* /api-endpoint and on /iitm-round2.
C17_MissingRepoNameAnswered400 ==
    (ValidSecret /\ Round2WithoutRepoName) =>
        /\ calls = <<>>
        /\ Responded => resp.status = 400

(***************************************************************************)
(* The order of the external steps and the propagation of their failures.  *)
(***************************************************************************)
\* The place of a call in the pipeline.
StepRank(op) ==
    CASE op \in {"generate", "modify"} -> 1
      [] op = "create_repo" -> 2
      [] op \in {"put_file", "get_file", "update_file"} -> 3
      [] op = "pages" -> 4
      [] op = "callback" -> 5

HasCall(op) == \E k \in 1..Len(calls) : calls[k].op = op

\* Some file write or file update of the request succeeded.
SomeWriteSucceeded ==
    \E k \in 1..Len(calls) :
        calls[k].op \in {"put_file", "update_file"} /\ WriteSucceeded(calls[k])

\* C18 (as stated): pages activation and callback delivery never start
\* after a publish in which no file write succeeded.
C18_Original_PublishGatesLaterSteps ==
    (HasCall("pages") \/ HasCall("callback")) => SomeWriteSucceeded

\* C18 (amended): the calls of a request are issued in the order generation,
\* publish (repository creation, then the file calls), pages activation,
\* callback; a call is issued only after every earlier GitHub call has
\* returned without raising (a failed generation call is absorbed by
\* generate_code and modify_code), file calls only after a creation
\* answered 201, pages activation only in round 1 and after every file of
\* the batch was written, the callback in round 1 only after pages
\* activation.  The status of the file writes gates nothing.
C18_StepsInOrder ==
    /\ \A i \in 1..(Len(calls) - 1) : StepRank(calls[i].op) <= StepRank(calls[i + 1].op)
    /\ calls # <<>> => calls[1].op = IF RoundOf = 1 THEN "generate" ELSE "modify"
    /\ \A i \in 1..(Len(calls) - 1) :
          /\ StepRank(calls[i].op) \in 2..4 => ~Raises(calls[i].outcome)
          /\ calls[i].op = "create_repo" => calls[i].outcome = Response(201)
    /\ HasCall("put_file") => HasCall("create_repo")
    /\ HasCall("pages") => RoundOf = 1 /\ Len(Puts) = Len(files_to_add)
    /\ (HasCall("callback") /\ RoundOf = 1) => HasCall("pages")
    /\ (HasCall("callback") /\ RoundOf = 2) => UpdateRepoReturned

\* Pages activation and the callback were started after a publish whose
\* every file write was answered with a failure status.
C18_Witness ==
    /\ Puts # <<>>
    /\ ~SomeWriteSucceeded
    /\ HasCall("pages")
    /\ HasCall("callback")

\* The pages activation call of the request, once made, did not succeed.
PagesFailed ==
    \E k \in 1..Len(calls) : calls[k].op = "pages" /\ ~WriteSucceeded(calls[k])

\* C19 (as stated): in round 1, when pages activation fails, by status or at
\* the network level, the request is still answered with success, its
\* pages_url is the repository page https://github.com/{owner}/{repo}, and
\* the callback is delivered.
C19_PagesFailureStillSucceeds ==
    (RoundOf = 1 /\ PagesFailed /\ Responded) =>
        /\ resp.status = 200
        /\ resp.body.pages_url = GithubUrl(FullRepoName(repo_url))
        /\ Truthy(EvaluationUrlOf) => Posts >= 1

CreateFailed ==
    \E k \in 1..Len(calls) : calls[k].op = "create_repo" /\ calls[k].outcome # Response(201)

\* The file calls of the publish batch were made and none wrote a file.
BatchFailed ==
    /\ HasCall("put_file") \/ HasCall("get_file")
    /\ ~SomeWriteSucceeded

ModifyFailed ==
    \E k \in 1..Len(calls) : calls[k].op = "modify" /\ calls[k].outcome # Response(200)

\* A call to GitHub raised a network-level exception.
PublisherRaised ==
    \E k \in 1..Len(calls) :
        calls[k].op \in {"create_repo", "put_file", "get_file", "update_file", "pages"}
        /\ Raises(calls[k].outcome)

\* C20 (as stated): repository creation failing, every file write or update
\* of the batch failing, or the modify-path generation call failing ends
\* the request with a 500-class response.
C20_Original_UpstreamFailureIs500 ==
    (Responded /\ (CreateFailed \/ BatchFailed \/ ModifyFailed)) => resp.status >= 500

\* C20 (amended): repository creation failing, and any GitHub call raising
\* at the network level, end the request with status 500; a batch whose
\* file calls were all answered with a failure status, and a modify-path
\* generation call that failed, end it with a success response, whose
\* commit identifier is "unknown".
C20_FailuresThatPropagate ==
    Responded =>
        /\ (CreateFailed \/ PublisherRaised) => resp.status = 500
        /\ (BatchFailed /\ ~PublisherRaised) =>
              resp.status = 200 /\ commit_sha = "unknown"
        /\ ModifyFailed =>
              /\ resp.status = 200
              /\ resp.body.commit_sha = "unknown"
              /\ ~HasCall("get_file")

\* A request whose every file write was refused was answered with success.
C20_Witness ==
    /\ pc = "done"
    /\ Len(Puts) >= 2
    /\ ~SomeWriteSucceeded
    /\ ~PublisherRaised
    /\ resp.status = 200

(***************************************************************************)
(* A failing step.                                                         *)
(***************************************************************************)
\* The call c failed in a way that raises inside the handler.
StepRaised(c) ==
    /\ StepRank(c.op) \in 2..4
    /\ Raises(c.outcome) \/ (c.op = "create_repo" /\ c.outcome # Response(201))

\* str(e) of what the failed call c raised
FailureText(c) ==
    IF Raises(c.outcome) THEN Str(ClientError) ELSE Str(Exception("Failed to create repository"))

\* C21: when a publish or activation step raises, it is the last call of the
\* request: no file write, no pages activation and no callback POST follows
\* it, and the request is answered with status 500 whose detail is the
\* handler's prefix followed by the failure's text.
C21_FailedStepEndsRequest ==
    (CreateFailed \/ PublisherRaised) =>
        LET last == calls[Len(calls)]
        IN /\ StepRaised(last)
           /\ \A k \in 1..(Len(calls) - 1) : ~StepRaised(calls[k])
           /\ pc \in {"respond", "done"}
           /\ Posts = 0
           /\ ret = Raised(HTTPException(500, <<FailurePrefix, FailureText(last)>>))
           /\ Responded => resp = ret

\* Repository creation was answered with a status other than 201 and the
\* request was answered 500.
C21_Witness ==
    /\ pc = "done"
    /\ CreateFailed
    /\ ~PublisherRaised
    /\ resp.status = 500

(***************************************************************************)
(* What the request has published on the host.                             *)
(***************************************************************************)
\* The repositories created so far.
CreatedRepos ==
    { calls[k].target : k \in { i \in 1..Len(calls) :
                                   calls[i].op = "create_repo" /\ WriteSucceeded(calls[i]) } }

\* The successful file writes and updates so far.
Writes ==
    { k \in 1..Len(calls) :
        calls[k].op \in {"put_file", "update_file"} /\ WriteSucceeded(calls[k]) }

\* The files the host holds: per repository and path, the write that gave
\* the file its present content.
PublishedFiles ==
    { [target |-> calls[k].target, path |-> calls[k].path, version |-> k] :
        k \in { i \in Writes :
                   \A j \in Writes : (j > i) =>
                       ~(calls[j].target = calls[i].target /\ calls[j].path = calls[i].path) } }

\* C22: no rollback.  No step of a request takes back what it published: the
\* call log is only extended, every repository created stays created and
\* every file written keeps the content its write gave it, also across a
\* failing step and the 500 response.
C22_PublishedContentOnlyGrows ==
    [][ \/ calls' = calls
        \/ /\ Len(calls') = Len(calls) + 1
           /\ SubSeq(calls', 1, Len(calls)) = calls
           \* a call that is no write leaves the host as it is
           /\ calls'[Len(calls')].op \in {"create_repo", "put_file", "update_file"}
                 => /\ CreatedRepos \subseteq CreatedRepos'
                    /\ PublishedFiles \subseteq PublishedFiles' ]_vars

\* A request answered 500 after its repository was created and a file was
\* written: the half-published repository is left as it is.
C22_Witness ==
    /\ pc = "done"
    /\ resp.status = 500
    /\ CreatedRepos # {}
    /\ PublishedFiles # {}

(***************************************************************************)
(* Repetition of the external calls.                                       *)
(***************************************************************************)
\* The p-th event of one run of the delivery loop.
ScheduledEvent(p) == IF p % 2 = 1 THEN PostEvent ELSE SleepEvent(delays[p \div 2])

\* C23: callback delivery is invoked at most once per request: the POSTs and
\* sleeps of the request are a prefix of one run of the delivery loop; no
\* POST is made when no evaluation_url was given or when the request failed;
\* and once a POST was answered 200 it stays the last POST of the request.
C23_OneDeliveryPerRequest ==
    /\ Len(cb_events) <= 2 * Len(delays) - 1
    /\ \A p \in 1..Len(cb_events) : cb_events[p] = ScheduledEvent(p)
    /\ Len(SelectSeq(calls, LAMBDA c : c.op = "callback")) = Posts
    /\ ~Truthy(EvaluationUrlOf) => Posts = 0
    /\ ret.status \notin {0, 200} => Posts = 0
    /\ cb_first200 # 0 => (Posts = cb_first200 /\ cb_last = Response(200))

\* The third POST was answered 200 and the request was answered.
C23_Witness ==
    /\ pc = "done"
    /\ cb_first200 = 3
    /\ Posts = 3

\* The number of calls of the kind op made so far.
CountOp(op) == Len(SelectSeq(calls, LAMBDA c : c.op = op))

\* The file calls made so far.
FileCalls == { k \in 1..Len(calls) : StepRank(calls[k].op) = 3 }

\* C24: within one request the generation call, the repository creation
\* and the pages activation are issued at most once each, and no file is
\* written, fetched or updated twice, whatever the calls are answered.
C24_EachCallIssuedOnce ==
    /\ CountOp("generate") + CountOp("modify") <= 1
    /\ CountOp("create_repo") <= 1
    /\ CountOp("pages") <= 1
    /\ \A i, j \in FileCalls :
          (i # j /\ calls[i].op = calls[j].op) => calls[i].path # calls[j].path

\* A request whose generation call and a file write failed, none of them
\* repeated, and whose callback was posted more than once.
C24_Witness ==
    /\ pc = "done"
    /\ calls # <<>>
    /\ calls[1].op = "generate" /\ calls[1].outcome = Response(500)
    /\ \E k \in FileCalls : calls[k].op = "put_file" /\ calls[k].outcome = Response(422)
    /\ Posts >= 2

(***************************************************************************)
(* The generation fallback.                                                *)
(***************************************************************************)
\* The keys of a FileSet, in order.
Keys(files) == [i \in 1..Len(files) |-> files[i].path]

\* generate_code's fallback FileSet for the brief: exactly the keys
\* index.html, style.css, script.js and README.md, the page and the readme
\* carrying the brief.
IsFallback(files, brief) ==
    /\ Keys(files) = <<"index.html", "style.css", "script.js", "README.md">>
    /\ files[1].content = <<"default_html", brief>>
    /\ files[2].content = <<"default_css">>
    /\ files[3].content = <<"default_js">>
    /\ files[4].content = <<"default_readme", brief>>

\* C25: on the create path a generation call that is not answered 200 (a
\* failure status, a network exception, a timeout) leaves generate_code with
\* the fallback FileSet, determined by the brief alone; a call answered 200
\* yields the parsed reply or, when it does not parse, the same fallback;
\* the handler has not failed and goes on to create the repository.
C25_GenerationFailureFallsBack ==
    (calls # <<>> /\ calls[1].op = "generate") =>
        LET brief == Get(data, "brief", "")
        IN /\ calls[1].outcome # Response(200) => IsFallback(code_files, brief)
           /\ calls[1].outcome = Response(200) =>
                 (code_files \in LlmFileSets \/ IsFallback(code_files, brief))
           /\ Len(calls) = 1 => (pc = "create_repo" /\ ret = NoResponse)
           /\ Len(calls) >= 2 => calls[2].op = "create_repo"

\* The generation call timed out and the request was answered with success.
C25_Witness ==
    /\ pc = "done"
    /\ calls # <<>>
    /\ calls[1].op = "generate"
    /\ calls[1].outcome = Timeout
    /\ resp.status = 200

(***************************************************************************)
(* End-to-end scenarios.                                                   *)
(***************************************************************************)
\* The call was answered with the status its caller takes for success (the
\* outcome of a callback POST is not in the log).
CallSucceeded(c) ==
    CASE c.op \in {"generate", "modify", "get_file"} -> c.outcome = Response(200)
      [] c.op = "create_repo" -> c.outcome = Response(201)
      [] c.op \in {"put_file", "update_file", "pages"} -> WriteSucceeded(c)
      [] c.op = "callback" -> TRUE

NoCallFailed == \A k \in 1..Len(calls) : CallSucceeded(calls[k])

\* C26 (as stated): a request to /api-endpoint with a valid secret and round
\* 1, or round 2 and a repo_name, whose external calls all succeed, is
\* answered 200 with status "success"; for round 1 the repo_url names a
\* repository beginning with iitm-demo-n1- and the pages_url is
\* https://{owner}.github.io/{repo}/.
C26_ApiEndpointSucceeds ==
    (/\ endpoint = "/api-endpoint"
     /\ ValidSecret
     /\ RoundOf = 1 \/ (RoundOf = 2 /\ NonEmpty(Get(data, "repo_name", <<>>)))
     /\ NoCallFailed
     /\ Responded) =>
        /\ resp.status = 200
        /\ resp.body.status = "success"
        /\ RoundOf = 1 =>
              LET full == FullRepoName(resp.body.repo_url)
              IN /\ SubSeq(full[2], 1, 13) = SubSeq(DeriveRepoName(TaskDemo, NonceN1, 0)[1], 1, 13)
                 /\ resp.body.pages_url = <<"https://", full[1], ".github.io/", <<full[2]>>, "/">>

\* C27 (as stated): a request to /iitm-task with a valid secret and without
\* task, nonce and brief creates no repository and is answered 500.
C27_MissingFieldsRejected ==
    (/\ endpoint = "/iitm-task"
     /\ ValidSecret
     /\ DOMAIN data \cap {"task", "round", "nonce", "brief"} = {}) =>
        /\ ~HasCall("create_repo")
        /\ Responded => resp.status = 500

(***************************************************************************)
(* The payload posted to the evaluator.                                    *)
(***************************************************************************)
CallbackCalls == SelectSeq(calls, LAMBDA c : c.op = "callback")

BatchBound == (IF MaxFiles > Len(FallbackFileSet("")) THEN MaxFiles
                                                      ELSE Len(FallbackFileSet(""))) + 2

\* The most steps the delivery loop takes from its POST number attempt + 1 to
\* the handler's return.
PostsLeft(attempt) == 2 * (Len(delays) - attempt) + 1

\* A bound on the steps the handler still takes before its response is sent.
StepsLeft ==
    CASE pc = "done" -> 0
      [] pc = "respond" -> 1
      [] pc = "cb_post" -> PostsLeft(cb_attempt)
      [] pc = "cb_sleep" -> PostsLeft(cb_attempt) - 1
      [] pc = "pages" -> PostsLeft(0) + 1
      [] pc = "add_file" -> PostsLeft(0) + 1 + (Len(files_to_add) - idx + 1)
      [] pc = "create_repo" -> PostsLeft(0) + 2 + BatchBound
      [] pc = "generate" -> PostsLeft(0) + 3 + BatchBound
      [] pc = "update_put" -> PostsLeft(0) + 2 * (Len(files_to_add) - idx + 1)
      [] pc = "update_get" -> PostsLeft(0) + 2 * (Len(files_to_add) - idx + 1) + 1
      [] pc = "modify" -> PostsLeft(0) + 2 * BatchBound + 2
      [] pc = "start" -> PostsLeft(0) + 2 * BatchBound + 3

\* C29: the handler terminates with exactly one response, every external
\* call returning an answer, an exception or a timeout: until the response
\* is sent a step is always possible, every step lowers the bound StepsLeft,
\* which never falls below zero, callback delivery makes at most six POSTs,
\* and the response, once sent, is never replaced.
C29_HandlerTerminates ==
    /\ [](/\ StepsLeft >= 0
          /\ Posts <= Len(delays)
          /\ pc # "done" => ENABLED Next
          /\ pc = "done" <=> Responded)
    /\ [][ /\ StepsLeft' < StepsLeft
           /\ Responded => resp' = resp ]_vars

\* A request with a valid secret was answered after six unanswered POSTs.
C29_Witness ==
    /\ ValidSecret
    /\ pc = "done"
    /\ Posts = Len(delays)
    /\ cb_result = "False"

(***************************************************************************)
(* Two requests handled concurrently by one process.  FastAPI runs each    *)
(* request in its own invocation of the handler coroutine; the event loop  *)
(* runs one invocation at a time and may switch to the other at every      *)
(* await.  The variables endpoint .. resp are the locals of the invocation *)
(* that is running, frames holds the locals of the suspended one; the      *)
(* configuration and the clock belong to the process.                      *)
(***************************************************************************)
\* The fields of the two requests: no field of one equals that of the other.
PairEmail == <<"a@b.c", "x@y.z">>
PairTask == <<TaskDemo, <<"m", "e", "m", "o">>>>
PairNonce == <<NonceN1, <<"n", "2">>>>
PairBrief == <<"hello page", "other page">>
PairUrl == <<EvaluationUrl, "https://grader.example/notify">>
PairRepo == << <<Owner, "site">>, <<Owner, "blog">> >>

\* The body of request r (1 or 2) posted to endpoint e.
PairBody(r, e) ==
    LET common == [secret |-> "s3cr3t", evaluation_url |-> PairUrl[r], task |-> PairTask[r],
                   nonce |-> PairNonce[r], email |-> PairEmail[r]]
    IN IF e = "/iitm-round2"
       THEN common @@ [modification |-> PairBrief[r], repo_name |-> PairRepo[r]]
       ELSE IF e = "/iitm-task"
       THEN common @@ [brief |-> PairBrief[r]]
       ELSE common @@ [brief |-> PairBrief[r], round |-> 1]

\* The locals of the running invocation.
Running ==
    [endpoint |-> endpoint, data |-> data, pc |-> pc, repo_name |-> repo_name,
     code_files |-> code_files, files_to_add |-> files_to_add, idx |-> idx,
     file_sha |-> file_sha, commit_sha |-> commit_sha, repo_url |-> repo_url,
     pages_url |-> pages_url, calls |-> calls, cb_attempt |-> cb_attempt,
     cb_events |-> cb_events, cb_last |-> cb_last, cb_result |-> cb_result,
     cb_first200 |-> cb_first200, ret |-> ret, resp |-> resp]

\* Mutant: commit_sha is a module-level variable, not a local of update_repo.
Locals_SharedCommit(f) == [f EXCEPT !.commit_sha = commit_sha]

\* The locals an invocation resumes with: those it was suspended with (the
\* handlers and the helpers they call assign to no module-level name).
Locals(f) == f

InitPair ==
    /\ EXPECTED_SECRET = "s3cr3t"
    /\ \E e1 \in {"/api-endpoint", "/iitm-task", "/iitm-round2"},
          e2 \in {"/iitm-task", "/iitm-round2"} :
          /\ endpoint = e1
          /\ data = PairBody(1, e1)
          /\ frames = << [endpoint |-> e2, data |-> PairBody(2, e2), pc |-> "start",
                          repo_name |-> <<>>, code_files |-> <<>>, files_to_add |-> <<>>,
                          idx |-> 1, file_sha |-> NoneVal, commit_sha |-> NoneVal,
                          repo_url |-> <<>>, pages_url |-> <<>>, calls |-> <<>>,
                          cb_attempt |-> 0, cb_events |-> <<>>, cb_last |-> NoOutcome,
                          cb_result |-> NoneVal, cb_first200 |-> 0, ret |-> NoResponse,
                          resp |-> NoResponse] >>
    /\ pc = "start"
    /\ repo_name = <<>>
    /\ code_files = <<>>
    /\ files_to_add = <<>>
    /\ idx = 1
    /\ file_sha = NoneVal
    /\ commit_sha = NoneVal
    /\ repo_url = <<>>
    /\ pages_url = <<>>
    /\ calls = <<>>
    /\ cb_attempt = 0
    /\ cb_events = <<>>
    /\ cb_last = NoOutcome
    /\ cb_result = NoneVal
    /\ cb_first200 = 0
    /\ ret = NoResponse
    /\ resp = NoResponse
    /\ now = 0
    /\ derived = <<>>

\* The answers the two-request runs consider: the generation service answers
\* 200 with at most one file or with text that is not JSON; GitHub creates the
\* repository or refuses it, accepts every write, and answers the read and
\* the pages request either way; the evaluator answers 200, or 500 to the
\* first POST and 200 to the second.
PairAnswers ==
    /\ \/ calls = <<>>
       \/ LET c == calls[Len(calls)]
          IN CASE c.op \in {"generate", "modify"} -> c.outcome = Response(200)
               [] c.op = "create_repo" -> c.outcome \in {Response(201), Response(422)}
               [] c.op \in {"put_file", "update_file"} -> c.outcome = Response(201)
               [] c.op \in {"get_file", "pages"} -> c.outcome \in {Response(200), Response(422)}
               [] c.op = "callback" -> TRUE
    /\ Len(code_files) <= 1 \/ IsFallback(code_files, Get(data, "brief", ""))
    /\ cb_last \in {NoOutcome, Response(200), Response(500)}
    /\ cb_last = Response(500) => Posts = 1

\* The running invocation takes one step, up to its next await.
Step ==
    /\ Next
    /\ PairAnswers'

\* The event loop suspends the running invocation at its await and resumes
\* the other one.
Switch ==
    /\ frames # <<>>
    /\ frames' = <<Running>>
    /\ LET f == Locals(frames[1])
       IN /\ endpoint' = f.endpoint
          /\ data' = f.data
          /\ pc' = f.pc
          /\ repo_name' = f.repo_name
          /\ code_files' = f.code_files
          /\ files_to_add' = f.files_to_add
          /\ idx' = f.idx
          /\ file_sha' = f.file_sha
          /\ commit_sha' = f.commit_sha
          /\ repo_url' = f.repo_url
          /\ pages_url' = f.pages_url
          /\ calls' = f.calls
          /\ cb_attempt' = f.cb_attempt
          /\ cb_events' = f.cb_events
          /\ cb_last' = f.cb_last
          /\ cb_result' = f.cb_result
          /\ cb_first200' = f.cb_first200
          /\ ret' = f.ret
          /\ resp' = f.resp
    /\ UNCHANGED <<EXPECTED_SECRET, now, derived>>

NextPair ==
    \/ Step
    \/ Switch

SpecPair == InitPair /\ [][NextPair]_vars


(***************************************************************************)
(* Concurrent requests.                                                    *)
(***************************************************************************)
\* The two invocations: the running one and the suspended one.
Invocations == <<Running>> \o frames

\* The identifiers the host returned to the invocation's own writes.
OwnShas(f) ==
    {f.calls[k].sha : k \in {j \in 1..Len(f.calls) : f.calls[j].op \in {"put_file", "update_file"}}}

\* "owner/repo" of the invocation's repository.
OwnRepo(f) == IF f.endpoint = "/iitm-round2" THEN f.repo_name ELSE <<Owner>> \o f.repo_name

\* The name, the published files, the payload and the response of invocation
\* f are made of the fields of f's request and the results of f's calls.
OwnValues(f) ==
    LET d == f.data
        brief == Get(d, "brief", "")
        commits == {"unknown"} \cup (OwnShas(f) \ {NoneVal})
    IN /\ f.repo_name \in
             {<<>>, IF f.endpoint = "/iitm-round2" THEN d.repo_name
                    ELSE DeriveRepoName(d.task, d.nonce, Seconds(now))}
       /\ f.commit_sha \in {NoneVal} \cup commits
       /\ f.repo_url \in {<<>>, GithubUrl(OwnRepo(f))}
       /\ f.pages_url \in {<<>>, GithubUrl(OwnRepo(f)), PagesUrlOf(OwnRepo(f))}
       /\ \A k \in 1..Len(f.calls) :
             LET c == f.calls[k]
             IN /\ c.op \in {"create_repo", "put_file", "get_file", "update_file"}
                      => c.target = f.repo_name
                /\ c.op = "pages" => c.target = OwnRepo(f)
                /\ c.op = "generate" => c.sent = brief
                /\ c.op = "modify" => c.sent = d.modification
                /\ c.op = "put_file"
                      => \E i \in 1..Len(f.files_to_add) :
                            /\ f.files_to_add[i].path = c.path
                            /\ f.files_to_add[i].content = c.sent
                \* an update carries the revision marker its own GET returned
                /\ c.op = "update_file"
                      => /\ \E i \in 1..Len(f.files_to_add) : f.files_to_add[i].path = c.path
                         /\ k > 1
                         /\ f.calls[k - 1].op = "get_file"
                         /\ f.calls[k - 1].path = c.path
                         /\ f.calls[k - 1].sha = c.sent
                /\ (c.op = "put_file" /\ c.path = "README.md")
                      => c.sent = <<"readme", brief, d.task, d.email, f.repo_name>>
                /\ c.op = "callback"
                      => /\ c.target = d.evaluation_url
                         /\ c.sent.email = d.email
                         /\ c.sent.task = d.task
                         /\ c.sent.nonce = d.nonce
                         /\ c.sent.repo_url = GithubUrl(OwnRepo(f))
                         /\ c.sent.pages_url = f.pages_url
                         /\ c.sent.commit_sha \in commits
       /\ f.resp.status = 200
             => IF f.endpoint = "/iitm-round2"
                THEN f.resp.body.commit_sha \in commits
                ELSE /\ f.resp.body.repo_url = GithubUrl(OwnRepo(f))
                     /\ f.resp.body.pages_url = f.pages_url

\* The two requests name their repository the same way (both derive it, or
\* both are given an "owner/repo"); otherwise a derived name, which has no
\* slash, and a given one differ.
SameNaming(f, g) == (f.endpoint = "/iitm-round2") <=> (g.endpoint = "/iitm-round2")

\* No field of g's request and no repository of g is in what f sent or answered.
NoForeignValue(f, g) ==
    /\ \A k \in 1..Len(f.calls) :
          LET c == f.calls[k]
          IN /\ (/\ c.op \in {"create_repo", "put_file", "get_file", "update_file", "pages"}
                 /\ SameNaming(f, g) /\ g.repo_name # <<>>)
                   => c.target \notin {g.repo_name, OwnRepo(g)}
             /\ c.op = "callback"
                   => /\ c.target # g.data.evaluation_url
                      /\ c.sent.email # g.data.email
                      /\ c.sent.task # g.data.task
                      /\ c.sent.nonce # g.data.nonce
                      /\ (SameNaming(f, g) /\ g.repo_name # <<>>)
                            => /\ c.sent.repo_url # GithubUrl(OwnRepo(g))
                               /\ c.sent.pages_url \notin {GithubUrl(OwnRepo(g)),
                                                          PagesUrlOf(OwnRepo(g))}
    /\ (/\ f.resp.status = 200 /\ f.endpoint # "/iitm-round2"
        /\ SameNaming(f, g) /\ g.repo_name # <<>>)
          => /\ f.resp.body.repo_url # GithubUrl(OwnRepo(g))
             /\ f.resp.body.pages_url \notin {GithubUrl(OwnRepo(g)), PagesUrlOf(OwnRepo(g))}

\* C30: under any interleaving of two concurrently handled requests, each
\* request's repository name, published files, callback payload and response
\* are made of that request's own fields and the results of its own calls,
\* and no value of one request appears in what the other sent or answered.
C30_RequestsShareNothing ==
    /\ \A i \in 1..Len(Invocations) : OwnValues(Invocations[i])
    /\ \A i, j \in 1..Len(Invocations) :
          i # j => NoForeignValue(Invocations[i], Invocations[j])

\* Both requests were answered 200 after their steps interleaved: each
\* published and notified while the other was suspended part-way.
C30_Witness ==
    /\ Len(frames) = 1
    /\ resp.status = 200
    /\ frames[1].resp.status = 200
    /\ endpoint = "/iitm-round2"
    /\ frames[1].endpoint = "/iitm-task"
    /\ \E k \in 1..Len(calls) : calls[k].op = "update_file"
    /\ \E k \in 1..Len(frames[1].calls) : frames[1].calls[k].op = "callback"


(***************************************************************************)
(* Round 2: the pages URL.                                                 *)
(***************************************************************************)
\* C31: in round 2 the pages URL is derived from repo_name alone, owner/repo
\* giving https://{owner}.github.io/{repo}/, and the pages-activation call is
\* never issued.
C31_Round2PagesUrlDerived ==
    RoundOf = 2 =>
        /\ ~HasCall("pages")
        /\ pages_url # <<>> =>
              /\ Len(repo_name) = 2
                    => pages_url = <<"https://", repo_name[1], ".github.io/",
                                     <<repo_name[2]>>, "/">>
              /\ Len(repo_name) < 2
                    => pages_url = <<"https://", repo_name, ".github.io/">>
        /\ \A k \in 1..Len(calls) :
              calls[k].op = "callback" => calls[k].sent.pages_url = pages_url

\* A round-2 request for octo/site was answered 200 after its callback was posted.
C31_Witness ==
    /\ endpoint = "/iitm-round2"
    /\ repo_name = <<Owner, "site">>
    /\ pc = "done"
    /\ resp.status = 200
    /\ HasCall("callback")
    /\ HasCall("update_file")
    /\ pages_url = <<"https://", Owner, ".github.io/", <<"site">>, "/">>


(***************************************************************************)
(* update_repo: read, then write, one file at a time.                      *)
(***************************************************************************)
\* The k-th call is the fetch of a file's revision marker answered 200.
FetchedAt(k) == calls[k].op = "get_file" /\ calls[k].outcome = Response(200)

\* C32: every file update is immediately preceded by a successful fetch of
\* the same file's revision marker in the same request and carries exactly
\* the marker that fetch returned; files are processed one at a time: after a
\* successful fetch the next call is that file's update, and no path is
\* fetched twice.
C32_UpdateFollowsItsFetch ==
    /\ \A k \in 1..Len(calls) :
          calls[k].op = "update_file" =>
              /\ k > 1
              /\ FetchedAt(k - 1)
              /\ calls[k - 1].target = calls[k].target
              /\ calls[k - 1].path = calls[k].path
              /\ calls[k - 1].sha = calls[k].sent
              /\ calls[k].sent # NoneVal
    /\ \A k \in 1..Len(calls) :
          (FetchedAt(k) /\ k < Len(calls)) =>
              /\ calls[k + 1].op = "update_file"
              /\ calls[k + 1].path = calls[k].path
    /\ \A j, k \in 1..Len(calls) :
          (j < k /\ calls[j].op = "get_file" /\ calls[k].op = "get_file")
              => calls[j].path # calls[k].path
    /\ (pc = "update_put") <=> (calls # <<>> /\ FetchedAt(Len(calls)))

\* Two files were fetched and updated in turn.
C32_Witness ==
    /\ Len(Updates) = 2
    /\ Len(Gets) = 2
    /\ pc = "done"


(***************************************************************************)
(* /api-endpoint: a request without a round.                               *)
(***************************************************************************)
\* C33 (as stated): a request to /api-endpoint with a valid secret and no
\* round field is rejected as a validation error and never starts the
\* round-1 workflow (no repository name is derived, no call is made).
C33_AbsentRoundRejected ==
    (endpoint = "/api-endpoint" /\ ValidSecret /\ "round" \notin DOMAIN data /\ pc # "start") =>
        /\ repo_name = <<>>
        /\ calls = <<>>
        /\ Responded => resp.status \in {400, 422}


(***************************************************************************)
(* add_files_to_repo: the batch of a round-1 publish.                      *)
(***************************************************************************)
\* The paths of a FileSet.
Paths(files) == {files[i].path : i \in 1..Len(files)}

\* add_files_to_repo has returned: every file of the batch was put.
BatchWritten == RoundOf = 1 /\ (pc = "pages" \/ HasCall("pages"))

\* C34: the batch written during a round-1 publish is the generated FileSet
\* plus LICENSE and README.md.  Each path is put once; LICENSE carries the MIT
\* text and README.md the synthesized readme, also when the generated FileSet
\* has an entry of that name; every other file carries its generated
\* content; once the batch is through, the paths put are those of the
\* generated FileSet, LICENSE and README.md.
C34_BatchIsFileSetPlusLicenseAndReadme ==
    RoundOf = 1 =>
        LET puts == Puts
            expected == Paths(code_files) \cup {"LICENSE", "README.md"}
        IN /\ \A i, j \in 1..Len(puts) : i # j => puts[i].path # puts[j].path
           /\ \A i \in 1..Len(puts) :
                 CASE puts[i].path = "LICENSE" -> puts[i].sent = <<"mit_license">>
                   [] puts[i].path = "README.md" ->
                         puts[i].sent = <<"readme", Get(data, "brief", ""),
                                          Get(data, "task", <<>>), Get(data, "email", ""),
                                          repo_name>>
                   [] OTHER -> \E k \in 1..Len(code_files) :
                                  /\ code_files[k].path = puts[i].path
                                  /\ code_files[k].content = puts[i].sent
           /\ BatchWritten =>
                 /\ Paths(puts) = expected
                 /\ Len(puts) = Cardinality(expected)

\* The generated FileSet had a README.md of its own and the batch went through.
C34_Witness ==
    /\ BatchWritten
    /\ "README.md" \in Paths(code_files)
    /\ Len(code_files) = 2
    /\ Len(Puts) = 3


(***************************************************************************)
(* Round 1: the repository the calls are addressed to.                     *)
(***************************************************************************)
\* C35 (as stated): during a round-1 publish every file write is addressed
\* to the same repository identifier (owner/name) as the repository the
\* creation call returned and pages activation is called with.
C35_WritesAddressCreatedRepo ==
    (RoundOf = 1 /\ repo_url # <<>>) =>
        \A k \in 1..Len(calls) :
            calls[k].op \in {"put_file", "pages"} => calls[k].target = FullRepoName(repo_url)


(***************************************************************************)
(* update_repo: a file whose fetch is not answered 200.                    *)
(***************************************************************************)
\* The k-th call is a fetch answered with a status other than 200.
FetchRefusedAt(k) ==
    /\ calls[k].op = "get_file"
    /\ ~Raises(calls[k].outcome)
    /\ calls[k].outcome # Response(200)

\* The entries of the batch update_repo processes.
Processed(files) == Paths(files) \ {"error"}

\* C36: update_repo never creates a file.  For an entry whose fetch is
\* answered with a status other than 200 no update is issued (not then, not
\* later), the fetch raises nothing, and the loop goes on: the next call is
\* the fetch of another entry or the step after update_repo, and unless a
\* call raises every entry of the batch is fetched.
C36_RefusedFetchSkipsEntry ==
    /\ \A k \in 1..Len(calls) :
          FetchRefusedAt(k) =>
              /\ \A j \in 1..Len(calls) :
                    calls[j].op = "update_file" => calls[j].path # calls[k].path
              /\ k < Len(calls) =>
                    \/ calls[k + 1].op = "get_file" /\ calls[k + 1].path # calls[k].path
                    \/ calls[k + 1].op = "callback"
              /\ k = Len(calls) =>
                    /\ pc \in {"update_get", "cb_post", "respond", "done"}
                    /\ pc \in {"respond", "done"} => ret.status = 200
    /\ (/\ endpoint = "/iitm-round2" /\ ValidSecret
        /\ pc \in {"cb_post", "cb_sleep"} \/ ret.status = 200)
          => Paths(Gets) = Processed(files_to_add)

\* The first file's fetch was answered 422, the second file was fetched and
\* updated, and the request was answered 200.
C36_Witness ==
    /\ Len(calls) >= 3
    /\ FetchRefusedAt(2)
    /\ calls[3].op = "get_file"
    /\ HasCall("update_file")
    /\ pc = "done"
    /\ resp.status = 200


(***************************************************************************)
(* Round 1: evaluation_sent.                                               *)
(***************************************************************************)
\* C38: in a round-1 success response evaluation_sent is true exactly when a
\* non-empty evaluation_url was supplied: true also when the delivery loop
\* returned False after six POSTs without a 200, and false only when no
\* callback was attempted.
C38_EvaluationSentMeansUrlSupplied ==
    (RoundOf = 1 /\ Responded /\ resp.status = 200) =>
        /\ resp.body.evaluation_sent <=> Truthy(EvaluationUrlOf)
        /\ resp.body.evaluation_sent <=> HasCall("callback")
        /\ cb_result = "False" => resp.body.evaluation_sent
        /\ ~resp.body.evaluation_sent => (Posts = 0 /\ cb_result = NoneVal)

\* A round-1 request answered 200 with evaluation_sent true after six POSTs,
\* none of them answered 200.
C38_Witness ==
    /\ RoundOf = 1
    /\ Responded
    /\ resp.status = 200
    /\ resp.body.evaluation_sent
    /\ Posts = Len(delays)
    /\ cb_result = "False"
    /\ cb_first200 = 0

====
